---------------------------- MODULE Spec2Model ----------------------------
(***************************************************************************)
(* Model of cmd/modbusgenerator/main.go: the driver (main), the placement  *)
(* loop (setRegister), the encoder factory (NewEncoder) and the six word   *)
(* codecs (Encode / Address).                                              *)
(*                                                                         *)
(* Addresses are scaled: BufCap stands for the 65536 units each register   *)
(* buffer of the server is created with.  A register buffer is a Go slice: *)
(* a backing array arr (its capacity is the size of arr) and a length len. *)
(* JSON numbers are float64 in the source; the model draws integer-valued  *)
(* ones, for which int(x) and uint16(x) are exact.                         *)
(***************************************************************************)
EXTENDS Integers, Sequences, FiniteSets, TLC

VARIABLES
    pc,                  \* position of the process in main / setRegister
    f,                   \* the flags struct filled by parseFlags
    serv,                \* the mbserver.Server: four buffers and the listener
    fileIdx,             \* index of the range loop over f.registerFiles
    configFileSpecified, \* main's local of that name
    registryRawData,     \* main's local: the decoded JSON array
    registryData,        \* setRegister's parameter: the []encoder
    registerType,        \* setRegister's parameter
    addrOffset,          \* setRegister's parameter
    prevAddr,            \* setRegister's local
    idx,                 \* number of entries the range loop has passed
    err,                 \* the error setRegister returned
    crash,               \* the runtime panic that ended the process, or ""
    requests,            \* requests the listening server has answered
    bits,                \* codec harness: the math.Float32bits pattern
    encKind,             \* codec harness: the codec applied last
    words                \* codec harness: what its Encode returned

vars == <<pc, f, serv, fileIdx, configFileSpecified, registryRawData,
          registryData, registerType, addrOffset, prevAddr, idx, err, crash,
          requests, bits, encKind, words>>

mainVars == <<f, fileIdx, configFileSpecified, registryRawData>>
callVars == <<registryData, registerType, addrOffset, prevAddr, idx, err>>
codecVars == <<bits, encKind, words>>

---------------------------------------------------------------------------
(* Bounds *)

BufCap == 5          \* scaled size of each register buffer (65536 in the server)
MaxEntries == 2      \* longest entry list handed to setRegister on its own
MaxFileRecords == 2  \* longest JSON array of a config file in a run of main
MaxRequests == 1     \* requests a client sends while the process lives

MaxRegAddr == BufCap + 1
RegAddrs == 0..MaxRegAddr
Numbers == {0, 1}
Offsets == {-1, 0}

---------------------------------------------------------------------------
(* Register types and sizes *)

coilType == "coil"
discreteType == "discrete"
inputType == "input"
holdingType == "holding"

RegisterTypes == {coilType, discreteType, inputType, holdingType}

coilSize == 1
discreteSize == 1
inputSize == 2
holdingSize == 2

---------------------------------------------------------------------------
(* 16-bit helpers *)

uint16ToLittleEndianNoSwap(u) == u

\* binary.LittleEndian.PutUint16 into two bytes, binary.BigEndian.Uint16 back.
uint16ToLittleEndian(u) ==
    LET b0 == u % 256            \* LittleEndian.PutUint16: b[0] = byte(u)
        b1 == (u \div 256) % 256 \*                         b[1] = byte(u >> 8)
    IN  b0 * 256 + b1            \* BigEndian.Uint16: b[0]<<8 | b[1]

uint16ToByteSlice(u) == << (u \div 256) % 256, u % 256 >>

RECURSIVE Log2(_)
Log2(n) == IF n < 2 THEN 0 ELSE 1 + Log2(n \div 2)

\* IEEE-754 single precision pattern of a non-negative integer below 2^24.
Float32bits(n) ==
    IF n = 0 THEN 0
    ELSE LET e == Log2(n)
         IN  (127 + e) * 2^23 + (n - 2^e) * 2^(23 - e)

---------------------------------------------------------------------------
(* Encoders: the six concrete types behind the encoder interface *)

FloatKinds == {"float32LittleWordBigEndian", "float32BigWordBigEndian",
               "float32LittleWordLittleEndian", "float32BigWordLittleEndian"}
WordKinds == {"wordInt16BigEndian", "wordInt16LittleEndian"}
Kinds == FloatKinds \cup WordKinds

NilEncoder == [Type |-> "nil", Number |-> 0, RegAddr |-> 0]

float32LittleWordBigEndian_Encode(n) ==
    LET v1 == (n \div 65536) % 65536
        v2 == n % 65536
    IN  <<v2, v1>>

float32BigWordBigEndian_Encode(n) ==
    LET v1 == (n \div 65536) % 65536
        v2 == n % 65536
    IN  <<v1, v2>>

float32LittleWordLittleEndian_Encode(n) ==
    LET v1 == uint16ToLittleEndian((n \div 65536) % 65536)
        v2 == uint16ToLittleEndian(n % 65536)
    IN  <<v2, v1>>

float32BigWordLittleEndian_Encode(n) ==
    LET v1 == uint16ToLittleEndian((n \div 65536) % 65536)
        v2 == uint16ToLittleEndian(n % 65536)
    IN  <<v1, v2>>

wordInt16BigEndian_Encode(number) ==
    LET vTmp == ((number % 65536) * 256) % 65536
    IN  << vTmp + 1 >>          \* vTmp | 1: the low byte of vTmp is 0

wordInt16LittleEndian_Encode(number) ==
    << uint16ToLittleEndian(number % 65536) >>

\* Encode of a float codec, from the bit pattern of float32(Number).
EncodeBits(kind, n) ==
    CASE kind = "float32LittleWordBigEndian" -> float32LittleWordBigEndian_Encode(n)
      [] kind = "float32BigWordBigEndian" -> float32BigWordBigEndian_Encode(n)
      [] kind = "float32LittleWordLittleEndian" -> float32LittleWordLittleEndian_Encode(n)
      [] kind = "float32BigWordLittleEndian" -> float32BigWordLittleEndian_Encode(n)

\* v.Encode(), dispatched on the dynamic type of v.
Encode(v) ==
    CASE v.Type \in FloatKinds -> EncodeBits(v.Type, Float32bits(v.Number))
      [] v.Type = "wordInt16BigEndian" -> wordInt16BigEndian_Encode(v.Number)
      [] v.Type = "wordInt16LittleEndian" -> wordInt16LittleEndian_Encode(v.Number)

\* v.Address(): int(RegAddr).
Address(v) == v.RegAddr

Encoders == [Type : Kinds, Number : Numbers, RegAddr : RegAddrs]

---------------------------------------------------------------------------
(* NewEncoder: raw JSON records to encoders *)

\* A raw record is a map[string]interface{}: type is its "type" string, or
\* Missing when the field is absent or no string; float64s is the set of
\* fields among number and regAddr that hold a float64.
Missing == "missing"
NumericFields == {"number", "regAddr"}

Raw(t, fs, n, a) == [type |-> t, float64s |-> fs, number |-> n, regAddr |-> a]

\* m["type"].(string), m["number"].(float64), m["regAddr"].(float64) panic on
\* an absent or ill-typed field; an unrecognised type string yields nil.
NewEncoderPanics(m) ==
    \/ m.type = Missing
    \/ m.type \in Kinds /\ m.float64s # NumericFields

NewEncoder(m) ==
    IF m.type \in Kinds
    THEN [Type |-> m.type, Number |-> m.number, RegAddr |-> m.regAddr]
    ELSE NilEncoder

---------------------------------------------------------------------------
(* Go slices *)

Cap(s) == Cardinality(DOMAIN s.arr)

ZeroBuffer == [arr |-> [i \in 0..(BufCap - 1) |-> 0], len |-> BufCap]

\* s[:addr] is legal for 0 <= addr <= cap(s), also beyond len(s).
SliceOK(s, addr) == 0 <= addr /\ addr <= Cap(s)

\* Capacity chosen by append when the backing array is too small.
GrowCap(old, needed) == IF needed > 2 * old THEN needed ELSE 2 * old

\* append(s[:addr], units...)
AppendAt(s, addr, units) ==
    LET n == Len(units)
        unit(i) == units[i - addr + 1]
    IN  IF addr + n <= Cap(s)
        THEN [arr |-> [i \in DOMAIN s.arr |->
                          IF addr <= i /\ i < addr + n THEN unit(i) ELSE s.arr[i]],
              len |-> addr + n]
        ELSE [arr |-> [i \in 0..(GrowCap(Cap(s), addr + n) - 1) |->
                          IF i < addr THEN s.arr[i]
                          ELSE IF i < addr + n THEN unit(i) ELSE 0],
              len |-> addr + n]

---------------------------------------------------------------------------
(* The server and the flags *)

BufferNames == {"Coils", "DiscreteInputs", "InputRegisters", "HoldingRegisters"}

\* mbserver.NewServer(): four zeroed buffers, no listener yet.
NewServer ==
    [Coils |-> ZeroBuffer, DiscreteInputs |-> ZeroBuffer,
     InputRegisters |-> ZeroBuffer, HoldingRegisters |-> ZeroBuffer,
     listening |-> FALSE]

\* serv.Close(), also what the end of the process does to the listener.
Close(s) == [s EXCEPT !.listening = FALSE]

NoFile == ""              \* the flag was not given
Unreadable == "unreadable" \* os.Open fails
Readable == "readable"
FileStates == {NoFile, Unreadable, Readable}

\* parseFlags: the four register files in a fixed order, and the offset.
parseFlags(jsonCoil, jsonDiscrete, jsonInput, jsonHolding, registerStartOffset) ==
    [registerFiles |->
        << [filename |-> jsonCoil, registerType |-> coilType],
           [filename |-> jsonDiscrete, registerType |-> discreteType],
           [filename |-> jsonInput, registerType |-> inputType],
           [filename |-> jsonHolding, registerType |-> holdingType] >>,
     registerStartOffset |-> registerStartOffset]

Flags == { parseFlags(c, d, i, h, o) :
             c \in FileStates, d \in FileStates, i \in FileStates,
             h \in FileStates, o \in Offsets }

NumFiles == Len(parseFlags(NoFile, NoFile, NoFile, NoFile, 0).registerFiles)

---------------------------------------------------------------------------
(* setRegister *)

NoError == [msg |-> "nil", reg |-> "", addr |-> 0]
WrongIncrementError(reg, addr) ==
    [msg |-> "wrong increment of address", reg |-> reg, addr |-> addr]
WrongFileError == [msg |-> "wrong file given", reg |-> "", addr |-> 0]

\* The buffer each case of the switch writes, its size constant, and the
\* units it appends.
Field(rt) ==
    CASE rt = coilType -> "Coils"
      [] rt = discreteType -> "DiscreteInputs"
      [] rt = inputType -> "InputRegisters"
      [] rt = holdingType -> "HoldingRegisters"

Size(rt) ==
    CASE rt = coilType -> coilSize
      [] rt = discreteType -> discreteSize
      [] rt = inputType -> inputSize
      [] rt = holdingType -> holdingSize

Units(rt, v) ==
    IF rt \in {coilType, discreteType}
    THEN uint16ToByteSlice(Encode(v)[1])
    ELSE Encode(v)

\* addr := v.Address() + addrOffset
EffectiveAddrMinus(v, offset) == Address(v) - offset

EffectiveAddr(v, offset) == Address(v) + offset

\* The guard of every case: prevAddr > addr-size.
WrongIncrementIgnoringSize(prev, addr, size) == prev >= addr

WrongIncrementSignSlip(prev, addr, size) == prev > addr + size

WrongIncrement(prev, addr, size) == prev > addr - size

Panic(msg) ==
    /\ crash' = msg
    /\ pc' = "panicked"
    /\ serv' = Close(serv)

\* Entry into setRegister(serv, data, rt, offset).
Call(data, rt, offset) ==
    /\ registryData' = data
    /\ registerType' = rt
    /\ addrOffset' = offset
    /\ prevAddr' = 0
    /\ idx' = 0
    /\ err' = NoError
    /\ pc' = "setRegister"

\* One iteration of the range loop of the case registerType selects.
SetRegisterIter ==
    /\ pc = "setRegister"
    /\ registerType \in RegisterTypes
    /\ idx < Len(registryData)
    /\ LET v == registryData[idx + 1] IN
       IF v = NilEncoder
       THEN /\ Panic("nil pointer dereference")
            /\ UNCHANGED <<prevAddr, idx, err>>
       ELSE LET addr == EffectiveAddr(v, addrOffset)
                buf == serv[Field(registerType)]
            IN  IF WrongIncrement(prevAddr, addr, Size(registerType))
                THEN /\ err' = WrongIncrementError(registerType, addr)
                     /\ pc' = "returned"
                     /\ UNCHANGED <<serv, prevAddr, idx, crash>>
                ELSE IF ~SliceOK(buf, addr)
                THEN /\ Panic("slice bounds out of range")
                     /\ UNCHANGED <<prevAddr, idx, err>>
                ELSE /\ serv' = [serv EXCEPT ![Field(registerType)] =
                                    AppendAt(buf, addr, Units(registerType, v))]
                     /\ prevAddr' = addr
                     /\ idx' = idx + 1
                     /\ UNCHANGED <<pc, err, crash>>
    /\ UNCHANGED <<mainVars, registryData, registerType, addrOffset,
                   requests, codecVars>>

\* The range loop is over: return nil.
SetRegisterReturn ==
    /\ pc = "setRegister"
    /\ registerType \in RegisterTypes
    /\ idx = Len(registryData)
    /\ err' = NoError
    /\ pc' = "returned"
    /\ UNCHANGED <<mainVars, serv, registryData, registerType, addrOffset,
                   prevAddr, idx, crash, requests, codecVars>>

\* The default case of the switch.
SetRegisterDefault ==
    /\ pc = "setRegister"
    /\ registerType \notin RegisterTypes
    /\ err' = WrongFileError
    /\ pc' = "returned"
    /\ UNCHANGED <<mainVars, serv, registryData, registerType, addrOffset,
                   prevAddr, idx, crash, requests, codecVars>>

\* The caller's list, revealed one entry at a time: the loop never looks
\* ahead of the entry it is at.
NextEntry ==
    /\ pc = "setRegister"
    /\ registerType \in RegisterTypes
    /\ idx = Len(registryData)
    /\ Len(registryData) < MaxEntries
    /\ \E v \in Encoders \cup {NilEncoder} :
          registryData' = Append(registryData, v)
    /\ UNCHANGED <<pc, mainVars, serv, registerType, addrOffset, prevAddr,
                   idx, err, crash, requests, codecVars>>

---------------------------------------------------------------------------
(* main *)

RECURSIVE SeqsUpTo(_, _)
SeqsUpTo(S, n) ==
    IF n = 0 THEN { <<>> }
    ELSE LET shorter == SeqsUpTo(S, n - 1)
         IN  shorter \cup { Append(q, x) : q \in { r \in shorter : Len(r) = n - 1 }, x \in S }

\* The records the config files of a run of main are made of.
FileRecords ==
    { Raw("wordInt16BigEndian", NumericFields, 1, 0),
      Raw("wordInt16BigEndian", NumericFields, 1, 3),
      Raw("float32BigWordBigEndian", NumericFields, 1, 3),
      Raw("bogus", NumericFields, 1, 3),
      Raw("wordInt16BigEndian", {"regAddr"}, 0, 3),
      Raw(Missing, NumericFields, 1, 3) }

\* serv.ListenRTUTCP(port): the listener is up and accepting when it returns
\* nil; on an error main logs it and returns.
ListenRTUTCP ==
    /\ pc = "main"
    /\ \/ /\ serv' = [serv EXCEPT !.listening = TRUE]
          /\ pc' = "loop"
       \/ /\ pc' = "listenFailed"
          /\ UNCHANGED serv
    /\ UNCHANGED <<mainVars, callVars, crash, requests, codecVars>>

\* if v.filename == "" { continue }
MainSkipFile ==
    /\ pc = "loop"
    /\ fileIdx <= NumFiles
    /\ f.registerFiles[fileIdx].filename = NoFile
    /\ fileIdx' = fileIdx + 1
    /\ UNCHANGED <<pc, f, serv, configFileSpecified, registryRawData,
                   callVars, crash, requests, codecVars>>

\* os.Open fails: log and continue.
MainOpenFails ==
    /\ pc = "loop"
    /\ fileIdx <= NumFiles
    /\ f.registerFiles[fileIdx].filename = Unreadable
    /\ configFileSpecified' = TRUE
    /\ fileIdx' = fileIdx + 1
    /\ UNCHANGED <<pc, f, serv, registryRawData, callVars, crash, requests,
                   codecVars>>

\* Open, decode the JSON array, run NewEncoder over every record, and call
\* setRegister.  A decoding error is logged and whatever was decoded is used.
MainDecodeFile ==
    /\ pc = "loop"
    /\ fileIdx <= NumFiles
    /\ f.registerFiles[fileIdx].filename = Readable
    /\ configFileSpecified' = TRUE
    /\ \E raw \in SeqsUpTo(FileRecords, MaxFileRecords) :
          /\ registryRawData' = raw
          /\ IF \E i \in 1..Len(raw) : NewEncoderPanics(raw[i])
             THEN /\ Panic("interface conversion")
                  /\ UNCHANGED callVars
             ELSE /\ Call([i \in 1..Len(raw) |-> NewEncoder(raw[i])],
                          f.registerFiles[fileIdx].registerType,
                          f.registerStartOffset)
                  /\ UNCHANGED <<serv, crash>>
    /\ UNCHANGED <<f, fileIdx, requests, codecVars>>

MainCheckErrContinue ==
    /\ pc = "returned"
    /\ pc' = "loop"
    /\ fileIdx' = fileIdx + 1
    /\ registryRawData' = <<>>
    /\ registryData' = <<>>
    /\ UNCHANGED <<f, serv, configFileSpecified, registerType, addrOffset,
                   prevAddr, idx, err, crash, requests, codecVars>>

\* if err != nil { log; return }, else the next file.  The deferred
\* serv.Close() runs on the return.
MainCheckErr ==
    /\ pc = "returned"
    /\ IF err # NoError
       THEN /\ pc' = "setRegisterFailed"
            /\ serv' = Close(serv)
            /\ UNCHANGED <<fileIdx, registryRawData, registryData>>
       ELSE /\ pc' = "loop"
            /\ fileIdx' = fileIdx + 1
            /\ registryRawData' = <<>>
            /\ registryData' = <<>>
            /\ UNCHANGED serv
    /\ UNCHANGED <<f, configFileSpecified, registerType, addrOffset, prevAddr,
                   idx, err, crash, requests, codecVars>>

\* After the loop: return when no config file was named, else wait for ctrl+c.
MainLoopEnd ==
    /\ pc = "loop"
    /\ fileIdx > NumFiles
    /\ IF ~configFileSpecified
       THEN /\ pc' = "noConfig"
            /\ serv' = Close(serv)
       ELSE /\ pc' = "waiting"
            /\ UNCHANGED serv
    /\ UNCHANGED <<mainVars, callVars, crash, requests, codecVars>>

\* <-c: the interrupt arrives, main prints "Stopped" and returns.
Interrupt ==
    /\ pc = "waiting"
    /\ pc' = "stopped"
    /\ serv' = Close(serv)
    /\ UNCHANGED <<mainVars, callVars, crash, requests, codecVars>>

\* The listening server answers a client's request from its buffers.
ServeRequest ==
    /\ serv.listening
    /\ requests < MaxRequests
    /\ requests' = requests + 1
    /\ UNCHANGED <<pc, serv, mainVars, callVars, crash, codecVars>>

Init ==
    /\ pc = "main"
    /\ f \in Flags
    /\ serv = NewServer
    /\ fileIdx = 1
    /\ configFileSpecified = FALSE
    /\ registryRawData = <<>>
    /\ registryData = <<>>
    /\ registerType = ""
    /\ addrOffset = 0
    /\ prevAddr = 0
    /\ idx = 0
    /\ err = NoError
    /\ crash = ""
    /\ requests = 0
    /\ bits = 0
    /\ encKind = ""
    /\ words = <<>>

Next ==
    \/ ListenRTUTCP
    \/ MainSkipFile
    \/ MainOpenFails
    \/ MainDecodeFile
    \/ SetRegisterIter
    \/ SetRegisterReturn
    \/ MainCheckErr
    \/ MainLoopEnd
    \/ Interrupt
    \/ ServeRequest

Spec == Init /\ [][Next]_vars

---------------------------------------------------------------------------
(* setRegister on its own: any register type, either offset, any list *)

InitSetRegister ==
    /\ pc = "setRegister"
    /\ f = parseFlags(NoFile, NoFile, NoFile, NoFile, 0)
    /\ serv = NewServer
    /\ fileIdx = 1
    /\ configFileSpecified = FALSE
    /\ registryRawData = <<>>
    /\ registryData = <<>>
    /\ registerType \in RegisterTypes \cup {"other"}
    /\ addrOffset \in Offsets
    /\ prevAddr = 0
    /\ idx = 0
    /\ err = NoError
    /\ crash = ""
    /\ requests = 0
    /\ bits = 0
    /\ encKind = ""
    /\ words = <<>>

NextSetRegister ==
    \/ NextEntry
    \/ SetRegisterIter
    \/ SetRegisterReturn
    \/ SetRegisterDefault

SpecSetRegister == InitSetRegister /\ [][NextSetRegister]_vars

---------------------------------------------------------------------------
(* One pass of setRegister over a list given whole, on a server whose other *)
(* categories main may already have filled                                  *)

MaxPassLen == MaxEntries + 1

\* The entries of such a list: a one-word and a two-word encoder at any address.
PassEncoders ==
    { e \in Encoders :
        e.Number = 1 /\ e.Type \in {"wordInt16BigEndian", "float32BigWordBigEndian"} }

\* The server after successful passes of one entry at address 1 over every
\* category but rt.
EarlierPasses(rt) ==
    LET e == [Type |-> "wordInt16BigEndian", Number |-> 1, RegAddr |-> 1]
        placed(t) == AppendAt(ZeroBuffer, EffectiveAddr(e, 0), Units(t, e))
    IN  [Coils |-> IF rt = coilType THEN ZeroBuffer ELSE placed(coilType),
         DiscreteInputs |->
             IF rt = discreteType THEN ZeroBuffer ELSE placed(discreteType),
         InputRegisters |->
             IF rt = inputType THEN ZeroBuffer ELSE placed(inputType),
         HoldingRegisters |->
             IF rt = holdingType THEN ZeroBuffer ELSE placed(holdingType),
         listening |-> FALSE]

InitPass ==
    /\ pc = "setRegister"
    /\ f = parseFlags(NoFile, NoFile, NoFile, NoFile, 0)
    /\ registerType \in RegisterTypes
    /\ serv \in {NewServer, EarlierPasses(registerType)}
    /\ fileIdx = 1
    /\ configFileSpecified = FALSE
    /\ registryRawData = <<>>
    /\ registryData \in SeqsUpTo(PassEncoders, MaxPassLen)
    /\ addrOffset \in Offsets
    /\ prevAddr = 0
    /\ idx = 0
    /\ err = NoError
    /\ crash = ""
    /\ requests = 0
    /\ bits = 0
    /\ encKind = ""
    /\ words = <<>>

NextPass ==
    \/ SetRegisterIter
    \/ SetRegisterReturn

SpecPass == InitPass /\ [][NextPass]_vars

---------------------------------------------------------------------------
(* The float codecs on their own: any bit pattern, any of the four codecs *)

\* Bit patterns math.Float32bits can return, built from a few byte values.
\* The top byte stays below 128 to keep the pattern in TLC's integers.
Patterns ==
    { b3 * 2^24 + b2 * 2^16 + b1 * 2^8 + b0 :
        b3 \in {0, 63, 64, 127}, b2 \in {0, 1, 128, 255},
        b1 \in {0, 1, 128, 255}, b0 \in {0, 1, 128, 255} }

InitCodec ==
    /\ pc = "codec"
    /\ f = parseFlags(NoFile, NoFile, NoFile, NoFile, 0)
    /\ serv = NewServer
    /\ fileIdx = 1
    /\ configFileSpecified = FALSE
    /\ registryRawData = <<>>
    /\ registryData = <<>>
    /\ registerType = ""
    /\ addrOffset = 0
    /\ prevAddr = 0
    /\ idx = 0
    /\ err = NoError
    /\ crash = ""
    /\ requests = 0
    /\ bits \in Patterns
    /\ encKind = ""
    /\ words = <<>>

\* Encode() of one of the four float codecs on a value whose pattern is bits.
EncodeFloat ==
    /\ pc = "codec"
    /\ \E k \in FloatKinds :
          /\ encKind' = k
          /\ words' = EncodeBits(k, bits)
    /\ UNCHANGED <<pc, mainVars, serv, callVars, crash, requests, bits>>

NextCodec == EncodeFloat

SpecCodec == InitCodec /\ [][NextCodec]_vars

---------------------------------------------------------------------------
(* Vocabulary of the properties below, stated from the entries themselves *)

\* Unit width of a register category.
Width(rt) == IF rt \in {coilType, discreteType} THEN 1 ELSE 2

\* The buffer of the category setRegister is working on.
Buffer == serv[Field(registerType)]

IsEntry(i) == registryData[i] # NilEncoder

\* Effective address of entry i: its address plus the offset.
EntryAddr(i) == registryData[i].RegAddr + addrOffset

\* Encoded units of entry i: high byte then low byte of the word for coil and
\* discrete, the one or two words for input and holding.
EntryUnits(i) ==
    LET w == Encode(registryData[i])
    IN  IF registerType \in {coilType, discreteType}
        THEN << w[1] \div 256, w[1] % 256 >>
        ELSE w

\* The visible content of buf starting at index a is exactly units.
WrittenAt(buf, a, units) ==
    \A k \in 1..Len(units) :
        /\ a + k - 1 \in DOMAIN buf.arr
        /\ a + k - 1 < buf.len
        /\ buf.arr[a + k - 1] = units[k]

\* Index p belongs to the units of one of the first n entries.
Covered(p, n) ==
    \E i \in 1..n :
        /\ IsEntry(i)
        /\ EntryAddr(i) <= p
        /\ p < EntryAddr(i) + Len(EntryUnits(i))

\* Every entry of the list is non-negative, inside the address space, and at
\* least one unit width above the entry before it.
MonotonicList ==
    \A i \in 1..Len(registryData) :
        /\ IsEntry(i)
        /\ EntryAddr(i) >= 0
        /\ EntryAddr(i) + Len(EntryUnits(i)) <= BufCap
        /\ i > 1 => EntryAddr(i) >= EntryAddr(i - 1) + Width(registerType)

\* The loop is at an entry (the next one it will process).
AtEntry ==
    /\ pc = "setRegister"
    /\ registerType \in RegisterTypes
    /\ idx < Len(registryData)
    /\ IsEntry(idx + 1)

\* The entry the loop is at is refused with the wrong-increment error and
\* nothing of the server changes.
Refused ==
    /\ pc' = "returned"
    /\ crash' = ""
    /\ err' = WrongIncrementError(registerType, EntryAddr(idx + 1))
    /\ serv' = serv

---------------------------------------------------------------------------
(* C1 *)

\* C1 (as claimed): for every category and every list whose effective
\* addresses are non-negative and rise by at least the unit width, setRegister
\* succeeds and afterwards the buffer holds each entry's units at its address;
\* first address 0 and adjacent coil addresses included.
C1_MonotonicPlacement ==
    (registerType \in RegisterTypes /\ MonotonicList) =>
        /\ crash = ""
        /\ err = NoError
        /\ pc = "returned" =>
              \A i \in 1..Len(registryData) :
                  WrittenAt(Buffer, EntryAddr(i), EntryUnits(i))

---------------------------------------------------------------------------
(* C2 *)

\* C2: an entry whose effective address is below the previous entry's
\* effective address plus the unit width is refused with the wrong-increment
\* error at that entry, and is not written.
C2_OverlapDetection ==
    [][ ( /\ AtEntry
          /\ idx >= 1
          /\ EntryAddr(idx + 1) < EntryAddr(idx) + Width(registerType) )
        => Refused ]_vars

\* Two holding entries at A and A + 1, the second refused.
C2_Witness ==
    /\ pc = "returned"
    /\ registerType = holdingType
    /\ idx = 1
    /\ Len(registryData) = 2
    /\ IsEntry(2)
    /\ EntryAddr(2) = EntryAddr(1) + 1
    /\ err = WrongIncrementError(holdingType, EntryAddr(2))

---------------------------------------------------------------------------
(* C3 *)

\* C3 (as claimed): every write to one of the four register buffers happens
\* before the server starts listening; no buffer changes while it listens.
C3_WritesBeforeListening ==
    [][ (\E b \in BufferNames : serv'[b] # serv[b]) => ~serv.listening ]_vars

---------------------------------------------------------------------------
(* C4 *)

\* C4 (as claimed): when placement fails for a category, main logs the error,
\* moves on to the next register file and keeps serving.
C4_CategoryIsolation ==
    [][ (pc = "returned" /\ err # NoError /\ pc' # pc)
        => (pc' = "loop" /\ fileIdx' = fileIdx + 1 /\ serv'.listening) ]_vars

\* C4 (amended): when placement fails for a category, main logs the error and
\* returns: the listener is closed, no buffer changes any more, and the
\* buffers of the register files after the failing one are still untouched.
C4_FailureEndsStartup ==
    /\ [][ (pc = "returned" /\ err # NoError /\ pc' # pc)
           => (pc' = "setRegisterFailed" /\ ~serv'.listening
               /\ \A b \in BufferNames : serv'[b] = serv[b]) ]_vars
    /\ [](pc = "setRegisterFailed" =>
            \A j \in (fileIdx + 1)..NumFiles :
                serv[Field(f.registerFiles[j].registerType)] = ZeroBuffer)

\* Placement failed for a register file and a later one is readable.
C4_Witness ==
    /\ pc = "setRegisterFailed"
    /\ err # NoError
    /\ \E j \in (fileIdx + 1)..NumFiles : f.registerFiles[j].filename = Readable

---------------------------------------------------------------------------
(* C5 *)

GoodRecord(m) == m.type \in Kinds /\ m.float64s = NumericFields

EncoderOf(m) == [Type |-> m.type, Number |-> m.number, RegAddr |-> m.regAddr]

\* C5 (as claimed): a record with an unrecognised type, or without a numeric
\* number or regAddr, is skipped: the run does not crash and exactly the other
\* records of the file are encoded and handed to placement.
C5_PerRecordRecovery ==
    (\E i \in 1..Len(registryRawData) : ~GoodRecord(registryRawData[i])) =>
        /\ crash = ""
        /\ pc \in {"setRegister", "returned"} =>
              LET good == SelectSeq(registryRawData, GoodRecord)
              IN  registryData = [i \in 1..Len(good) |-> EncoderOf(good[i])]

---------------------------------------------------------------------------
(* C6 *)

\* C6 (as claimed): an entry whose effective address is negative is refused
\* with an address-out-of-range error, distinct from the overlap error.
C6_NegativeAddressOutOfRange ==
    ( /\ registerType \in RegisterTypes
      /\ pc # "setRegister"
      /\ idx < Len(registryData)
      /\ IsEntry(idx + 1)
      /\ EntryAddr(idx + 1) < 0 )
    => (crash = "" /\ pc = "returned" /\ err.msg = "address out of range")

\* C6 (amended): an entry whose effective address is negative is refused with
\* the wrong-increment error of the overlap check, it is not written, and the
\* buffer is never sliced at a negative index.
C6_NegativeAddressRefused ==
    [][ (AtEntry /\ EntryAddr(idx + 1) < 0) => Refused ]_vars

\* regAddr 0 under offset -1, refused.
C6_Witness ==
    /\ pc = "returned"
    /\ registerType \in RegisterTypes
    /\ addrOffset = -1
    /\ idx < Len(registryData)
    /\ IsEntry(idx + 1)
    /\ registryData[idx + 1].RegAddr = 0
    /\ err = WrongIncrementError(registerType, -1)

---------------------------------------------------------------------------
(* C7 *)

FloatEntry(i) == IsEntry(i) /\ registryData[i].Type \in FloatKinds

---------------------------------------------------------------------------
(* C8 *)

\* C8 (as claimed): after a successful pass over entries that lie inside the
\* address space, the buffer still spans the whole address space and every
\* index no entry covers holds zero.
C8_UntouchedRegionsZero ==
    ( /\ registerType \in RegisterTypes
      /\ pc = "returned"
      /\ err = NoError
      /\ \A i \in 1..Len(registryData) :
            EntryAddr(i) + Len(EntryUnits(i)) <= BufCap ) =>
        /\ Buffer.len = BufCap
        /\ \A p \in 0..(BufCap - 1) :
              ~Covered(p, Len(registryData)) =>
                  (p \in DOMAIN Buffer.arr /\ Buffer.arr[p] = 0)

---------------------------------------------------------------------------
(* C9 *)

\* swap(w) = (w << 8 | w >> 8) & 0xFFFF
swap(w) == ((w * 256) + (w \div 256)) % 65536

\* The encoding table: word order and byte order of each float codec.
Table(kind, high16, low16) ==
    CASE kind = "float32LittleWordBigEndian" -> << low16, high16 >>
      [] kind = "float32BigWordBigEndian" -> << high16, low16 >>
      [] kind = "float32LittleWordLittleEndian" -> << swap(low16), swap(high16) >>
      [] kind = "float32BigWordLittleEndian" -> << swap(high16), swap(low16) >>

\* Undo the word order and the byte swap of a codec and reassemble the pattern.
Reassemble(kind, ws) ==
    CASE kind = "float32LittleWordBigEndian" -> ws[2] * 65536 + ws[1]
      [] kind = "float32BigWordBigEndian" -> ws[1] * 65536 + ws[2]
      [] kind = "float32LittleWordLittleEndian" -> swap(ws[2]) * 65536 + swap(ws[1])
      [] kind = "float32BigWordLittleEndian" -> swap(ws[1]) * 65536 + swap(ws[2])

\* Neither exchanging the two words, nor swapping the bytes of both words, nor
\* doing both leaves the pair of words as it was.
NotSymmetric(high16, low16) ==
    /\ high16 # low16
    /\ (swap(high16) # high16 \/ swap(low16) # low16)
    /\ swap(high16) # low16

---------------------------------------------------------------------------
(* C10 *)

\* C10 (as claimed): during a pass no write changes a buffer unit that an
\* earlier entry of the pass wrote.
C10_NoOverwriteWithinPass ==
    [][ (registerType \in RegisterTypes) =>
          (\A p \in DOMAIN Buffer.arr :
              Covered(p, idx) =>
                  (p \in DOMAIN Buffer'.arr /\ Buffer'.arr[p] = Buffer.arr[p])) ]_vars

---------------------------------------------------------------------------
(* C11 *)

\* Sorted by effective address the list would be valid: every entry is
\* non-negative and inside the address space, and any two entries are at least
\* one unit width apart.
ValidIfSorted ==
    \A i \in 1..Len(registryData) :
        /\ IsEntry(i)
        /\ EntryAddr(i) >= 0
        /\ EntryAddr(i) + Len(EntryUnits(i)) <= BufCap
        /\ \A j \in 1..Len(registryData) :
              j # i => \/ EntryAddr(i) >= EntryAddr(j) + Width(registerType)
                       \/ EntryAddr(j) >= EntryAddr(i) + Width(registerType)

\* Entry i lies below the entry given before it.
Descending(i) == i >= 2 /\ EntryAddr(i) < EntryAddr(i - 1)

OutOfOrder == \E i \in 1..Len(registryData) : Descending(i)

FirstDescending ==
    CHOOSE i \in 1..Len(registryData) :
        Descending(i) /\ \A j \in 1..(i - 1) : ~Descending(j)

\* The pass ended at an entry: with the wrong-increment error or a panic.
FailedAtEntry ==
    /\ registerType \in RegisterTypes
    /\ idx < Len(registryData)
    /\ \/ pc = "returned" /\ err # NoError
       \/ pc = "panicked"

\* Every step of a pass leaves the list as given and the other three buffers
\* alone; a step that writes places the entry the loop is at, at its address,
\* and leaves everything below that address; the step that fails writes
\* nothing and takes nothing back.
InInputOrderWithoutRollback ==
    [][ (pc = "setRegister" /\ registerType \in RegisterTypes) =>
          ( /\ registryData' = registryData
            /\ \A b \in BufferNames \ {Field(registerType)} : serv'[b] = serv[b]
            /\ Buffer' # Buffer =>
                  /\ idx < Len(registryData)
                  /\ idx' = idx + 1
                  /\ pc' = "setRegister"
                  /\ WrittenAt(Buffer', EntryAddr(idx + 1), EntryUnits(idx + 1))
                  /\ \A p \in DOMAIN Buffer.arr :
                        p < EntryAddr(idx + 1) =>
                            (p \in DOMAIN Buffer'.arr /\ Buffer'.arr[p] = Buffer.arr[p])
            /\ (pc' # "setRegister" /\ idx < Len(registryData)) =>
                  (Buffer' = Buffer /\ idx' = idx) ) ]_vars

\* After a failure at entry idx + 1 the buffer holds the entries before it as
\* the pass placed them (each unit as its last writer left it), and nothing of
\* the failing entry or a later one.
PartialWritesRemain ==
    FailedAtEntry =>
        /\ \A i \in 1..idx : \A k \in 1..Len(EntryUnits(i)) :
              LET p == EntryAddr(i) + k - 1
              IN  (\A j \in (i + 1)..idx :
                      ~(EntryAddr(j) <= p /\ p < EntryAddr(j) + Len(EntryUnits(j))))
                  => (p \in DOMAIN Buffer.arr /\ p < Buffer.len
                      /\ Buffer.arr[p] = EntryUnits(i)[k])
        /\ \A p \in DOMAIN Buffer.arr : ~Covered(p, idx) => Buffer.arr[p] = 0

\* A list that is valid if sorted but given out of order fails with the
\* wrong-increment error exactly at its first descending entry.
FailsAtFirstDescending ==
    (registerType \in RegisterTypes /\ ValidIfSorted /\ OutOfOrder) =>
        /\ crash = ""
        /\ idx < FirstDescending
        /\ pc = "returned" =>
              /\ idx = FirstDescending - 1
              /\ err = WrongIncrementError(registerType, EntryAddr(FirstDescending))

\* C11 (as claimed): entries are processed strictly in input order and never
\* sorted; when placement fails at an entry, the entries before it remain
\* written as placed, that entry and the later ones are not written, and the
\* other three buffers are unchanged; a list that would be valid if sorted but
\* is given out of order fails at its first descending entry.
C11_FailFastInInputOrder ==
    /\ InInputOrderWithoutRollback
    /\ [](PartialWritesRemain)
    /\ [](FailsAtFirstDescending)

===========================================================================
